---- MODULE Spec2Model ----
(***************************************************************************)
(* Model of src/utils/textstat-helper.py: one run of main() reads a JSON   *)
(* document from stdin, validates its text field, calls the textstat       *)
(* metric functions in the order of the dict literal of analyze_text,      *)
(* and writes either the metrics or an error envelope to stdout.           *)
(*                                                                         *)
(* The textstat library and the json module are outside the repository.    *)
(* A metric call is a nondeterministic choice between returning the value  *)
(* fn(text) and raising; the choice is remembered per (function, text), so *)
(* the library is a stateless function of the text.  json.dump writes the  *)
(* object chunk by chunk, as the stdlib encoder does.                      *)
(***************************************************************************)
EXTENDS Integers, Sequences, FiniteSets, TLC

VARIABLES stdin, pc, input_data, text, idx, results, exc, stdout, status,
          lib, calls, run, prev

vars == <<stdin, pc, input_data, text, idx, results, exc, stdout, status,
          lib, calls, run, prev>>

(* ------------------------------ bounds -------------------------------- *)

MaxLen == 2
MaxRuns == 2
MaxUnencodable == 1

(* --------------------------- JSON documents --------------------------- *)

Chars == {" ", "a"}

Whitespace == {" "}

RECURSIVE StringsUpTo(_)
StringsUpTo(n) ==
  IF n = 0 THEN {<<>>}
  ELSE LET shorter == StringsUpTo(n - 1)
       IN  shorter \cup {Append(s, c) : s \in {t \in shorter : Len(t) = n - 1}, c \in Chars}

Strings == StringsUpTo(MaxLen)

JsonValue(kind, n, s) == [kind |-> kind, n |-> n, s |-> s]

JsonNull == JsonValue("null", 0, <<>>)

JsonStr(s) == JsonValue("str", 0, s)

\* Values a JSON parser can hand back for the text field: n is the
\* truth value of a bool, the value of a number, the size of a container.
JsonValues ==
  {JsonNull}
    \cup {JsonValue(k, n, <<>>) : k \in {"bool", "num", "float", "arr", "obj"}, n \in {0, 1}}
    \cup {JsonStr(s) : s \in Strings}

Doc(top, hasText, t) == [top |-> top, hasText |-> hasText, text |-> t]

\* What stdin can hold: bytes that are no JSON, a JSON value that is not an
\* object, an object without a text key, an object with a text of any type.
Docs ==
  {Doc(top, FALSE, JsonNull) : top \in {"malformed", "null", "bool", "num", "float", "str", "arr", "obj"}}
    \cup {Doc("obj", TRUE, v) : v \in JsonValues}

\* type(v).__name__ of the Python value json.load builds for a JSON kind.
PyTypeName(kind) ==
  CASE kind = "null" -> "NoneType"
    [] kind = "bool" -> "bool"
    [] kind = "num" -> "int"
    [] kind = "float" -> "float"
    [] kind = "str" -> "str"
    [] kind = "arr" -> "list"
    [] kind = "obj" -> "dict"

\* Variant of Truthy: a string counts as false when it is blank.
TruthyBlankIsFalse(v) ==
  CASE v.kind = "null" -> FALSE
    [] v.kind = "str" -> \E j \in 1..Len(v.s) : v.s[j] \notin Whitespace
    [] OTHER -> v.n # 0

\* Python truth value of a parsed JSON value (the operand of `not text`).
Truthy(v) ==
  CASE v.kind = "null" -> FALSE
    [] v.kind = "str" -> Len(v.s) > 0
    [] OTHER -> v.n # 0

\* str.strip(): leading and trailing whitespace removed.
RECURSIVE LStrip(_)
LStrip(s) == IF s # <<>> /\ Head(s) \in Whitespace THEN LStrip(Tail(s)) ELSE s

RECURSIVE RStrip(_)
RStrip(s) ==
  IF s # <<>> /\ s[Len(s)] \in Whitespace THEN RStrip(SubSeq(s, 1, Len(s) - 1)) ELSE s

Strip(s) == RStrip(LStrip(s))

(* ----------------------------- exceptions ----------------------------- *)

Exc(type, msg) == [type |-> type, msg |-> msg]

NoExc == Exc("", "")

JSONDecodeError == Exc("JSONDecodeError", "Expecting value: line 1 column 1 (char 0)")

NoAttribute(kind, attr) ==
  Exc("AttributeError", "'" \o PyTypeName(kind) \o "' object has no attribute '" \o attr \o "'")

NoTextError == Exc("ValueError", "No text provided in input JSON")

\* Variant of EmptyTextError: another exception class.
EmptyTextErrorAsTypeError == Exc("TypeError", "Text cannot be empty")

EmptyTextError == Exc("ValueError", "Text cannot be empty")

NotSerializable == Exc("TypeError", "Object of type set is not JSON serializable")

\* Exceptions a metric function raises on text that breaks its formula.
LibErrors == {Exc("ZeroDivisionError", "division by zero")}

(* ------------------------- the metrics mapping ------------------------ *)

Entry(key, fn) == [key |-> key, fn |-> fn]

\* Variant of Entries: the last entry is missing.
EntriesWithoutLast ==
  << Entry("flesch_reading_ease", "flesch_reading_ease"),
     Entry("flesch_kincaid_grade", "flesch_kincaid_grade"),
     Entry("gunning_fog", "gunning_fog"),
     Entry("smog_index", "smog_index"),
     Entry("automated_readability_index", "automated_readability_index"),
     Entry("coleman_liau_index", "coleman_liau_index"),
     Entry("linsear_write_formula", "linsear_write_formula"),
     Entry("dale_chall_readability_score", "dale_chall_readability_score"),
     Entry("difficult_words", "difficult_words"),
     Entry("linsear_write_formula", "linsear_write_formula"),
     Entry("text_standard", "text_standard(float_output=False)"),
     Entry("reading_time", "reading_time(ms_per_char=14.69)"),
     Entry("syllable_count", "syllable_count"),
     Entry("lexicon_count", "lexicon_count(removepunct=True)"),
     Entry("sentence_count", "sentence_count"),
     Entry("char_count", "char_count(ignore_spaces=True)"),
     Entry("letter_count", "letter_count(ignore_spaces=True)"),
     Entry("polysyllabcount", "polysyllabcount") >>

\* Variant of Entries: letter_count is computed by char_count.
EntriesSharedFunction ==
  << Entry("flesch_reading_ease", "flesch_reading_ease"),
     Entry("flesch_kincaid_grade", "flesch_kincaid_grade"),
     Entry("gunning_fog", "gunning_fog"),
     Entry("smog_index", "smog_index"),
     Entry("automated_readability_index", "automated_readability_index"),
     Entry("coleman_liau_index", "coleman_liau_index"),
     Entry("linsear_write_formula", "linsear_write_formula"),
     Entry("dale_chall_readability_score", "dale_chall_readability_score"),
     Entry("difficult_words", "difficult_words"),
     Entry("linsear_write_formula", "linsear_write_formula"),
     Entry("text_standard", "text_standard(float_output=False)"),
     Entry("reading_time", "reading_time(ms_per_char=14.69)"),
     Entry("syllable_count", "syllable_count"),
     Entry("lexicon_count", "lexicon_count(removepunct=True)"),
     Entry("sentence_count", "sentence_count"),
     Entry("char_count", "char_count(ignore_spaces=True)"),
     Entry("letter_count", "char_count(ignore_spaces=True)"),
     Entry("polysyllabcount", "polysyllabcount"),
     Entry("monosyllabcount", "monosyllabcount") >>

\* The dict literal of analyze_text, entry by entry in source order.
Entries ==
  << Entry("flesch_reading_ease", "flesch_reading_ease"),
     Entry("flesch_kincaid_grade", "flesch_kincaid_grade"),
     Entry("gunning_fog", "gunning_fog"),
     Entry("smog_index", "smog_index"),
     Entry("automated_readability_index", "automated_readability_index"),
     Entry("coleman_liau_index", "coleman_liau_index"),
     Entry("linsear_write_formula", "linsear_write_formula"),
     Entry("dale_chall_readability_score", "dale_chall_readability_score"),
     Entry("difficult_words", "difficult_words"),
     Entry("linsear_write_formula", "linsear_write_formula"),
     Entry("text_standard", "text_standard(float_output=False)"),
     Entry("reading_time", "reading_time(ms_per_char=14.69)"),
     Entry("syllable_count", "syllable_count"),
     Entry("lexicon_count", "lexicon_count(removepunct=True)"),
     Entry("sentence_count", "sentence_count"),
     Entry("char_count", "char_count(ignore_spaces=True)"),
     Entry("letter_count", "letter_count(ignore_spaces=True)"),
     Entry("polysyllabcount", "polysyllabcount"),
     Entry("monosyllabcount", "monosyllabcount") >>

\* The 18 metric names of the output contract.
MetricKeys ==
  { "flesch_reading_ease", "flesch_kincaid_grade", "gunning_fog", "smog_index",
    "automated_readability_index", "coleman_liau_index", "linsear_write_formula",
    "dale_chall_readability_score", "difficult_words", "text_standard",
    "reading_time", "syllable_count", "lexicon_count", "sentence_count",
    "char_count", "letter_count", "polysyllabcount", "monosyllabcount" }

(* ------------------------------- values ------------------------------- *)

\* A value that reaches json.dump: the result fn(arg) of a metric call (enc
\* tells whether the json encoder has an encoding for its type) or a string.
MetricVal(fn, arg, enc) == [enc |-> enc, fn |-> fn, arg |-> arg, str |-> ""]

StrVal(s) == [enc |-> TRUE, fn |-> "", arg |-> <<>>, str |-> s]

NoVal == StrVal("")

Pair(key, val) == [key |-> key, val |-> val]

\* d[key] = val on a Python dict kept as its pairs in insertion order: an
\* existing key keeps its place and takes the new value.
DictSet(d, key, val) ==
  IF \E j \in 1..Len(d) : d[j].key = key
  THEN [j \in 1..Len(d) |-> IF d[j].key = key THEN Pair(key, val) ELSE d[j]]
  ELSE Append(d, Pair(key, val))

NumUnencodable(d) == Cardinality({j \in 1..Len(d) : ~d[j].val.enc})

(* ------------------------------ json.dump ----------------------------- *)

Tok(tok, key, val) == [tok |-> tok, key |-> key, val |-> val]

RECURSIVE PairChunks(_, _)
PairChunks(d, n) ==
  IF n = 0 THEN <<>>
  ELSE PairChunks(d, n - 1) \o <<Tok("key", d[n].key, NoVal), Tok("val", d[n].key, d[n].val)>>

FirstUnencodable(d) ==
  IF \A j \in 1..Len(d) : d[j].val.enc THEN 0
  ELSE CHOOSE j \in 1..Len(d) : ~d[j].val.enc /\ \A k \in 1..(j - 1) : d[k].val.enc

Reverse(d) == [j \in 1..Len(d) |-> d[Len(d) + 1 - j]]

\* Variant of JsonDump: the pairs are written in an order that differs from
\* one process to the next (iteration over a hashed set of keys).
JsonDumpHashOrder(d) ==
  LET e == IF run % 2 = 0 THEN Reverse(d) ELSE d
  IN  [out |-> <<Tok("{", "", NoVal)>> \o PairChunks(e, Len(e)) \o <<Tok("}", "", NoVal)>>,
       exc |-> NoExc]

\* json.dump(d, fp): the encoder yields "{", then each key and each value in
\* insertion order, then "}", and every chunk is written as it is yielded; a
\* value without an encoding raises TypeError after the chunks before it.
JsonDump(d) ==
  LET bad == FirstUnencodable(d)
  IN  IF bad = 0
      THEN [out |-> <<Tok("{", "", NoVal)>> \o PairChunks(d, Len(d)) \o <<Tok("}", "", NoVal)>>,
            exc |-> NoExc]
      ELSE [out |-> <<Tok("{", "", NoVal)>> \o PairChunks(d, bad - 1)
                      \o <<Tok("key", d[bad].key, NoVal)>>,
            exc |-> NotSerializable]

\* Variant of Envelope: the message is left out.
EnvelopeTypeOnly(e) == <<Pair("type", StrVal(e.type))>>

\* error_output of the except clause.
Envelope(e) == <<Pair("error", StrVal(e.msg)), Pair("type", StrVal(e.type))>>

(* ---------------------------- the library ----------------------------- *)

Memo(fn, arg, out) == [fn |-> fn, arg |-> arg, out |-> out]

Outcome(kind, e) == [kind |-> kind, exc |-> e]

\* What a call fn(arg) can do.  With open = FALSE the library keeps to
\* textstat's documented types (numbers and a string label, all of which
\* json encodes); with open = TRUE a returned value may have no encoding.
Outcomes(open, d) ==
  {Outcome("value", NoExc)}
    \cup {Outcome("raise", e) : e \in LibErrors}
    \cup (IF open /\ NumUnencodable(d) < MaxUnencodable
          THEN {Outcome("unencodable", NoExc)} ELSE {})

Known(fn, arg) == \E m \in lib : m.fn = fn /\ m.arg = arg

Recall(fn, arg) == (CHOOSE m \in lib : m.fn = fn /\ m.arg = arg).out

(* ------------------------------- state -------------------------------- *)

None == JsonValue("None", 0, <<>>)

NoDoc == Doc("None", FALSE, JsonNull)

NoPrev == [out |-> <<>>, status |-> -1]

Running == -1

Init ==
  /\ stdin \in Docs
  /\ pc = "load"
  /\ input_data = NoDoc
  /\ text = None
  /\ idx = 1
  /\ results = <<>>
  /\ exc = NoExc
  /\ stdout = <<>>
  /\ status = Running
  /\ lib = {}
  /\ calls = 0
  /\ run = 1
  /\ prev = NoPrev

Raise(e) == pc' = "except" /\ exc' = e

(* ------------------------------- main --------------------------------- *)

\* input_data = json.load(sys.stdin)
Load ==
  /\ pc = "load"
  /\ IF stdin.top = "malformed"
     THEN Raise(JSONDecodeError) /\ UNCHANGED input_data
     ELSE pc' = "get" /\ input_data' = stdin /\ UNCHANGED exc
  /\ UNCHANGED <<stdin, text, idx, results, stdout, status, lib, calls, run, prev>>

\* text = input_data.get('text', '')
GetText ==
  /\ pc = "get"
  /\ IF input_data.top # "obj"
     THEN Raise(NoAttribute(input_data.top, "get")) /\ UNCHANGED text
     ELSE /\ pc' = "check"
          /\ text' = IF input_data.hasText THEN input_data.text ELSE JsonStr(<<>>)
          /\ UNCHANGED exc
  /\ UNCHANGED <<stdin, input_data, idx, results, stdout, status, lib, calls, run, prev>>

\* Variant of CheckText: main does not test the text.
CheckTextSkipped ==
  /\ pc = "check"
  /\ pc' = "validate"
  /\ UNCHANGED <<stdin, input_data, text, idx, results, exc, stdout, status, lib, calls, run, prev>>

\* if not text: raise ValueError("No text provided in input JSON")
CheckText ==
  /\ pc = "check"
  /\ IF ~Truthy(text) THEN Raise(NoTextError) ELSE pc' = "validate" /\ UNCHANGED exc
  /\ UNCHANGED <<stdin, input_data, text, idx, results, stdout, status, lib, calls, run, prev>>

(* ---------------------------- analyze_text ---------------------------- *)

\* Variant of Validate: the strip() test is left out.
ValidateTruthyOnly ==
  /\ pc = "validate"
  /\ IF ~Truthy(text) THEN Raise(EmptyTextError) ELSE pc' = "metrics" /\ UNCHANGED exc
  /\ UNCHANGED <<stdin, input_data, text, idx, results, stdout, status, lib, calls, run, prev>>

\* if not text or not text.strip(): raise ValueError("Text cannot be empty")
Validate ==
  /\ pc = "validate"
  /\ IF ~Truthy(text) THEN Raise(EmptyTextError)
     ELSE IF text.kind # "str" THEN Raise(NoAttribute(text.kind, "strip"))
     ELSE IF Strip(text.s) = <<>> THEN Raise(EmptyTextError)
     ELSE pc' = "metrics" /\ UNCHANGED exc
  /\ UNCHANGED <<stdin, input_data, text, idx, results, stdout, status, lib, calls, run, prev>>

\* One entry of the dict literal: "key": textstat.fn(text).  The value is
\* held in the dict under construction; after the last entry the dict is
\* returned to main.  A raise abandons the dict.
Apply(o, fn) ==
  IF o.kind = "raise"
  THEN /\ Raise(o.exc)
       /\ UNCHANGED <<idx, results>>
  ELSE /\ results' = DictSet(results, Entries[idx].key, MetricVal(fn, text.s, o.kind = "value"))
       /\ idx' = idx + 1
       /\ pc' = IF idx = Len(Entries) THEN "dump" ELSE "metrics"
       /\ UNCHANGED exc

\* Variant of CallMetric: each value is written to stdout as it is computed.
CallMetricStreaming(open) ==
  /\ pc = "metrics"
  /\ idx <= Len(Entries)
  /\ LET fn == Entries[idx].fn
     IN  \E o \in Outcomes(open, results) :
           /\ Known(fn, text.s) => o = Recall(fn, text.s)
           /\ lib' = lib \cup {Memo(fn, text.s, o)}
           /\ Apply(o, fn)
           /\ stdout' = IF o.kind = "raise" THEN stdout
                        ELSE stdout \o <<Tok("key", Entries[idx].key, NoVal),
                                         Tok("val", Entries[idx].key, MetricVal(fn, text.s, TRUE))>>
  /\ calls' = calls + 1
  /\ UNCHANGED <<stdin, input_data, text, status, run, prev>>

\* The step of analyze_text that evaluates entry idx of the dict literal.
CallMetric(open) ==
  /\ pc = "metrics"
  /\ idx <= Len(Entries)
  /\ LET fn == Entries[idx].fn
     IN  \E o \in Outcomes(open, results) :
           /\ Known(fn, text.s) => o = Recall(fn, text.s)
           /\ lib' = lib \cup {Memo(fn, text.s, o)}
           /\ Apply(o, fn)
  /\ calls' = calls + 1
  /\ UNCHANGED <<stdin, input_data, text, stdout, status, run, prev>>

(* --------------------------- main, continued -------------------------- *)

\* json.dump(results, sys.stdout); sys.exit(0)
Dump ==
  /\ pc = "dump"
  /\ LET r == JsonDump(results)
     IN  /\ stdout' = stdout \o r.out
         /\ IF r.exc = NoExc
            THEN pc' = "done" /\ status' = 0 /\ UNCHANGED exc
            ELSE Raise(r.exc) /\ UNCHANGED status
  /\ UNCHANGED <<stdin, input_data, text, idx, results, lib, calls, run, prev>>

\* except Exception as e: json.dump(error_output, sys.stdout); sys.exit(1)
Except ==
  /\ pc = "except"
  /\ stdout' = stdout \o JsonDump(Envelope(exc)).out
  /\ status' = 1
  /\ pc' = "done"
  /\ UNCHANGED <<stdin, input_data, text, idx, results, exc, lib, calls, run, prev>>

\* The caller starts the script again on the same stdin bytes: a new
\* process, so nothing of main's state survives but what the caller read.
Rerun ==
  /\ pc = "done"
  /\ run < MaxRuns
  /\ run' = run + 1
  /\ prev' = [out |-> stdout, status |-> status]
  /\ pc' = "load"
  /\ input_data' = NoDoc
  /\ text' = None
  /\ idx' = 1
  /\ results' = <<>>
  /\ exc' = NoExc
  /\ stdout' = <<>>
  /\ status' = Running
  /\ calls' = 0
  /\ UNCHANGED <<stdin, lib>>

Next ==
  \/ Load
  \/ GetText
  \/ CheckText
  \/ Validate
  \/ CallMetric(FALSE)
  \/ Dump
  \/ Except
  \/ Rerun

Spec == Init /\ [][Next]_vars

\* The same program with a library whose return values are not known to
\* have a JSON encoding.
NextAnyValue ==
  \/ Load
  \/ GetText
  \/ CheckText
  \/ Validate
  \/ CallMetric(TRUE)
  \/ Dump
  \/ Except
  \/ Rerun

SpecAnyValue == Init /\ [][NextAnyValue]_vars

(* ------------------- what the caller reads from stdout ---------------- *)

Done == pc = "done"

StdoutKeys == {stdout[j].key : j \in {k \in 1..Len(stdout) : stdout[k].tok = "key"}}

\* out is one complete JSON object: "{", then key and value chunks in
\* turn, every value encoded, then "}", and nothing before or after.
IsObject(out) ==
  /\ Len(out) >= 2
  /\ Len(out) % 2 = 0
  /\ out[1].tok = "{"
  /\ out[Len(out)].tok = "}"
  /\ \A j \in 2..(Len(out) - 1) :
       /\ out[j].tok = (IF j % 2 = 0 THEN "key" ELSE "val")
       /\ j % 2 = 1 => out[j].key = out[j - 1].key /\ out[j].val.enc

\* The pairs of the object out, in the order written.
ObjectPairs(out) == [j \in 1..((Len(out) - 2) \div 2) |-> Pair(out[2 * j].key, out[2 * j + 1].val)]

Emits(d) == IsObject(stdout) /\ ObjectPairs(stdout) = d

HasNonWhitespace(s) == \E j \in 1..Len(s) : s[j] \notin Whitespace

\* stdin is a JSON object whose text is a string with a non-whitespace character.
ValidText(doc) ==
  doc.top = "obj" /\ doc.hasText /\ doc.text.kind = "str" /\ HasNonWhitespace(doc.text.s)

TextPresentAs(doc, s) == doc.top = "obj" /\ doc.hasText /\ doc.text = JsonStr(s)

TextKeyMissing(doc) == doc.top = "obj" /\ ~doc.hasText

TextNull(doc) == doc.top = "obj" /\ doc.hasText /\ doc.text = JsonNull

\* text is present, a string, not empty, and all whitespace
TextWhitespaceOnly(doc) ==
  /\ doc.top = "obj" /\ doc.hasText /\ doc.text.kind = "str"
  /\ doc.text.s # <<>> /\ ~HasNonWhitespace(doc.text.s)

\* A metric call of this run's text raised (the library is a function of the text).
MetricRaised == \E m \in lib : m.out.kind = "raise"

(* ------------------------------- claims ------------------------------- *)

\* C1: a run on a JSON object whose text is a string with a non-whitespace
\* character, in which no metric call raises, ends with exit status 0 and
\* with stdout holding one JSON object of 18 pairs whose key set is exactly
\* the 18 metric names.
C1_ExactlyTheMetricKeys ==
  (Done /\ ValidText(stdin) /\ ~MetricRaised) =>
    /\ status = 0
    /\ IsObject(stdout)
    /\ Len(ObjectPairs(stdout)) = Cardinality(MetricKeys)
    /\ StdoutKeys = MetricKeys

C1_Witness ==
  Done /\ ValidText(stdin) /\ ~MetricRaised /\ status = 0 /\ StdoutKeys = MetricKeys

\* C2: a run that fails (stdin is no JSON, the text is missing or empty, or a
\* metric call raises) ends with exit status 1 and with stdout holding the
\* object {error: message of the raised exception, type: name of its class},
\* those two keys and no other.
C2_ErrorEnvelope ==
  (Done /\ (\/ stdin.top = "malformed"
            \/ TextKeyMissing(stdin)
            \/ TextPresentAs(stdin, <<>>)
            \/ (calls > 0 /\ MetricRaised)
            \/ exc # NoExc)) =>
    /\ status = 1
    /\ exc # NoExc
    /\ Emits(<<Pair("error", StrVal(exc.msg)), Pair("type", StrVal(exc.type))>>)
    /\ stdin.top = "malformed" => exc = JSONDecodeError
    /\ (TextKeyMissing(stdin) \/ TextPresentAs(stdin, <<>>)) => exc.type = "ValueError"
    /\ (calls > 0 /\ MetricRaised) => exc \in LibErrors /\ \E m \in lib : m.out.exc = exc

C2_Witness ==
  /\ Done /\ status = 1 /\ calls > 1 /\ exc \in LibErrors
  /\ Emits(<<Pair("error", StrVal(exc.msg)), Pair("type", StrVal(exc.type))>>)

\* C3: every run that has ended, whatever stdin held and whether computing
\* or serializing the results failed, has exit status 0 or 1 and left on
\* stdout exactly one complete JSON object.
C3_OneCompleteObject == Done => status \in {0, 1} /\ IsObject(stdout)

\* C4: at every point of a run stdout holds all 18 metric keys or none of
\* them, never metric keys together with the error and type keys, and no
\* metric key at all in a run in which a metric call raises.
C4_AllOrNothing ==
  /\ StdoutKeys \cap MetricKeys \in {{}, MetricKeys}
  /\ StdoutKeys \cap MetricKeys # {} => StdoutKeys \cap {"error", "type"} = {}
  /\ MetricRaised => StdoutKeys \cap MetricKeys = {}

C4_Witness ==
  /\ Done /\ exc \in LibErrors /\ calls = 9 /\ Len(results) = 8
  /\ StdoutKeys = {"error", "type"}

\* C5 as stated: a text that is missing, null, the empty string or
\* whitespace only ends the run with the 'No text provided in input JSON'
\* message, in all four cases.
C5_Original ==
  (Done /\ (\/ TextKeyMissing(stdin)
            \/ TextNull(stdin)
            \/ TextPresentAs(stdin, <<>>)
            \/ TextWhitespaceOnly(stdin))) =>
    Emits(Envelope(NoTextError))

\* C5 amended: a text that is missing, null or the empty string ends the
\* run with the 'No text provided in input JSON' message raised by main; a
\* text that is a non-empty string of whitespace only ends it with the
\* 'Text cannot be empty' message raised by analyze_text.
C5_Amended ==
  /\ (Done /\ (TextKeyMissing(stdin) \/ TextNull(stdin) \/ TextPresentAs(stdin, <<>>))) =>
       status = 1 /\ Emits(Envelope(NoTextError))
  /\ (Done /\ TextWhitespaceOnly(stdin)) =>
       status = 1 /\ Emits(Envelope(EmptyTextError))

C5_Witness == Done /\ TextWhitespaceOnly(stdin) /\ Emits(Envelope(EmptyTextError))

\* C6 as stated: a text that is present but empty or blank ("" as well as
\* "   ") yields the 'Text cannot be empty' error, and an object with no
\* text key yields the 'No text provided in input JSON' error.
C6_Original ==
  /\ (Done /\ (TextPresentAs(stdin, <<>>) \/ TextWhitespaceOnly(stdin))) =>
       exc = EmptyTextError /\ Emits(Envelope(EmptyTextError))
  /\ (Done /\ TextKeyMissing(stdin)) =>
       exc = NoTextError /\ Emits(Envelope(NoTextError))

\* C6 amended: the message tells a blank text from an absent one only when
\* the text has at least one character: a present text of whitespace only
\* ("   ") yields 'Text cannot be empty', raised by analyze_text, while the
\* present empty string "" yields the same 'No text provided in input JSON',
\* raised by main before analyze_text is called, as an object with no text key.
C6_Amended ==
  /\ (Done /\ TextWhitespaceOnly(stdin)) =>
       exc = EmptyTextError /\ Emits(Envelope(EmptyTextError))
  /\ (Done /\ (TextPresentAs(stdin, <<>>) \/ TextKeyMissing(stdin))) =>
       exc = NoTextError /\ Emits(Envelope(NoTextError)) /\ calls = 0
  /\ Envelope(EmptyTextError)[1] # Envelope(NoTextError)[1]

C6_Witness == Done /\ TextPresentAs(stdin, <<>>) /\ Emits(Envelope(NoTextError))

\* C7: a run repeated on the same stdin, with the metric functions being
\* stateless functions of the text, writes the same stdout and exits with
\* the same status as the run before it.
C7_Deterministic == (Done /\ run > 1) => stdout = prev.out /\ status = prev.status

C7_Witness ==
  Done /\ run > 1 /\ status = 0 /\ prev.status = 0 /\ StdoutKeys = MetricKeys

\* C8: the type of the error envelope is the same, ValueError, when the text
\* key is missing, when the text is the empty string and when it is
\* whitespace only.
C8_SameCategory ==
  (Done /\ (\/ TextKeyMissing(stdin)
            \/ TextPresentAs(stdin, <<>>)
            \/ TextWhitespaceOnly(stdin))) =>
    /\ IsObject(stdout)
    /\ Len(ObjectPairs(stdout)) = 2
    /\ ObjectPairs(stdout)[2] = Pair("type", StrVal("ValueError"))

C8_Witness ==
  /\ Done /\ TextWhitespaceOnly(stdin) /\ IsObject(stdout)
  /\ ObjectPairs(stdout)[2] = Pair("type", StrVal("ValueError"))

\* Two different keys of the written object take their value from the same
\* library function applied to the same text.
TwoKeysOneFunction(d) ==
  \E i, j \in 1..Len(d) :
    /\ d[i].key # d[j].key
    /\ d[i].val.fn = d[j].val.fn
    /\ d[i].val.arg = d[j].val.arg

\* C9 as stated: the written metrics hold two distinct keys whose values
\* come from the same library function applied to the same text.
C9_Original == (Done /\ status = 0) => TwoKeysOneFunction(ObjectPairs(stdout))

\* C9 amended: one metric's computation is duplicated, on one and the same
\* key: linsear_write_formula is called twice on the text, both times for
\* the key linsear_write_formula, so a successful run makes 19 library calls
\* for 18 written keys, and no two distinct keys of the output take their
\* value from the same library function.
C9_Amended ==
  (Done /\ status = 0) =>
    /\ calls = Len(Entries)
    /\ calls = Cardinality(MetricKeys) + 1
    /\ Len(ObjectPairs(stdout)) = Cardinality(MetricKeys)
    /\ ~TwoKeysOneFunction(ObjectPairs(stdout))
    /\ \A i, j \in 1..Len(Entries) :
         (i # j /\ Entries[i].fn = Entries[j].fn) =>
           Entries[i].key = "linsear_write_formula" /\ Entries[j].key = "linsear_write_formula"
    /\ \E i, j \in 1..Len(Entries) : i # j /\ Entries[i] = Entries[j]

C9_Witness ==
  Done /\ status = 0 /\ calls = 19 /\ Len(ObjectPairs(stdout)) = 18

\* C10: a library metric function is called only in a run whose stdin is a
\* JSON object with a text that is a string with a non-whitespace character;
\* a run on any other stdin calls none and can only end with the error
\* envelope and exit status 1.
C10_ValidationFirst ==
  /\ calls > 0 => ValidText(stdin)
  /\ pc \in {"metrics", "dump"} => ValidText(stdin)
  /\ (Done /\ ~ValidText(stdin)) =>
       calls = 0 /\ status = 1 /\ StdoutKeys = {"error", "type"} /\ IsObject(stdout)

C10_Witness ==
  /\ Done /\ stdin.top = "obj" /\ stdin.hasText /\ stdin.text = JsonValue("num", 1, <<>>)
  /\ calls = 0 /\ status = 1

====
